---- MODULE Spec2Model ----
(***************************************************************************)
(* python-pcre: the _pcre extension module (src/src/pcremodule.c).         *)
(*                                                                         *)
(* The module wraps the PCRE library.  The state is one Pattern object and *)
(* one Match object of the host runtime; the operations are the methods    *)
(* and getters of the two types.  The PCRE library itself (pcre_compile2,  *)
(* pcre_study, pcre_fullinfo, pcre_exec) is not part of the repository: it *)
(* is modelled by its documented interface, over a fixed table of small    *)
(* patterns, at the call sites of the binding.                             *)
(***************************************************************************)
EXTENDS Integers, Sequences, FiniteSets, TLC

VARIABLES
    build,      \* preprocessor configuration of the extension (fixed at build time)
    pat,        \* the PyPatternObject
    match,      \* the PyMatchObject
    result      \* what the last call returned or raised

vars == <<build, pat, match, result>>

(***************************************************************************)
(* Bounds of the model                                                     *)
(***************************************************************************)
MaxPos == 2          \* largest pos / endpos argument tried

(***************************************************************************)
(* Host objects.  A string-like object is [kind, data, id]: kind is the    *)
(* host type, data its items (bytes for "bytes" and "buffer1", code points *)
(* for "unicode"), id tells objects of the caller ("arg") from bytes       *)
(* objects the binding creates itself ("enc").                             *)
(***************************************************************************)
NullObj == [kind |-> "NULL", data |-> <<>>, id |-> "null"]

Obj(k, d) == [kind |-> k, data |-> d, id |-> "arg"]

(***************************************************************************)
(* UTF-8 as the host's encoder produces it (PyUnicode_AsUTF8String)        *)
(***************************************************************************)
EncodeCodePoint(cp) ==
    IF cp < 128 THEN <<cp>>
    ELSE IF cp < 2048 THEN <<192 + (cp \div 64), 128 + (cp % 64)>>
    ELSE IF cp < 65536 THEN
        <<224 + (cp \div 4096), 128 + ((cp \div 64) % 64), 128 + (cp % 64)>>
    ELSE <<240 + (cp \div 262144), 128 + ((cp \div 4096) % 64),
           128 + ((cp \div 64) % 64), 128 + (cp % 64)>>

RECURSIVE PyUnicode_AsUTF8String(_)
PyUnicode_AsUTF8String(cps) ==
    IF cps = <<>> THEN <<>>
    ELSE EncodeCodePoint(Head(cps)) \o PyUnicode_AsUTF8String(Tail(cps))

(* a code point of the surrogate range, which is no character *)
IsSurrogate(cp) == cp >= 55296 /\ cp <= 57343

(* The host's encoder refuses text with a lone surrogate where the new     *)
(* unicode API exists (Python 3.3 and later: UnicodeEncodeError); the      *)
(* encoder of Python 2, the host without that API, writes it as the three  *)
(* bytes EncodeCodePoint gives.                                            *)
EncoderRefuses(cps, b) ==
    b.new_unicode /\ \E i \in 1..Len(cps) : IsSurrogate(cps[i])

(* number of items len() reports for a host object *)
RECURSIVE Utf16Units(_)
Utf16Units(cps) ==
    IF cps = <<>> THEN 0
    ELSE (IF Head(cps) > 65535 THEN 2 ELSE 1) + Utf16Units(Tail(cps))

PyObject_Size(op, b) ==
    IF op.kind = "unicode" /\ ~b.new_unicode /\ ~b.wide
    THEN Utf16Units(op.data)
    ELSE Len(op.data)

(***************************************************************************)
(* pypcre_string_t and pypcre_string_get                                   *)
(***************************************************************************)
NullStr == [string |-> <<>>, length |-> 0, op |-> NullObj]

(* a bytes object created by the binding to own re-encoded data *)
EncObj(bytes) == [kind |-> "bytes", data |-> bytes, id |-> "enc"]

CountNonAscii(bytes) == Cardinality({i \in 1..Len(bytes) : bytes[i] > 127})

(* the conversion with one lead byte for every byte above 127 *)
RECURSIVE Latin1ToUTF8_one_lead_byte(_)
Latin1ToUTF8_one_lead_byte(bytes) ==
    IF bytes = <<>> THEN <<>>
    ELSE LET c == Head(bytes)
         IN  (IF c > 127 THEN <<195, 128 + (c % 64)>> ELSE <<c>>)
             \o Latin1ToUTF8_one_lead_byte(Tail(bytes))

RECURSIVE Latin1ToUTF8(_)
Latin1ToUTF8(bytes) ==
    IF bytes = <<>> THEN <<>>
    ELSE LET c == Head(bytes)
         IN  (IF c > 127 THEN <<192 + (c \div 64), 128 + (c % 64)>> ELSE <<c>>)
             \o Latin1ToUTF8(Tail(bytes))

StringError(exc, options) ==
    [rc |-> -1, str |-> NullStr, options |-> options, exc |-> exc]

StringOk(string, length, op, options) ==
    [rc |-> 0, str |-> [string |-> string, length |-> length, op |-> op],
     options |-> options, exc |-> "none"]

(* oom: the host fails to allocate the bytes object for re-encoded data *)
string_get_from_bytes(op, options, oom) ==
    LET declared == "UTF8" \in options
        opts     == IF declared THEN options ELSE options \cup {"NO_UTF8_CHECK"}
        count    == IF declared THEN 0 ELSE CountNonAscii(op.data)
    IN  IF count = 0
        THEN StringOk(op.data, Len(op.data), op, opts)
        ELSE IF oom THEN StringError("MemoryError", opts)
        ELSE StringOk(Latin1ToUTF8(op.data), count + Len(op.data),
                      EncObj(Latin1ToUTF8(op.data)), opts)

string_get_from_pyunicode(op, options, oom) ==
    IF oom THEN StringError("MemoryError", options)
    ELSE LET bytes == PyUnicode_AsUTF8String(op.data)
         IN  StringOk(bytes, Len(bytes), EncObj(bytes),
                      options \cup {"NO_UTF8_CHECK"})

PyUnicode_IS_ASCII(op) == \A i \in 1..Len(op.data) : op.data[i] < 128

pypcre_string_get(op, options, b, oom) ==
    IF op.kind = "bytes" THEN string_get_from_bytes(op, options, oom)
    ELSE IF op.kind = "unicode" THEN
        LET opts == options \cup {"NO_UTF8_CHECK"}
        IN  IF b.new_unicode /\ PyUnicode_IS_ASCII(op)
            THEN StringOk(op.data, Len(op.data), op, opts)
            ELSE IF EncoderRefuses(op.data, b)
            THEN StringError("UnicodeEncodeError", opts)
            ELSE IF oom THEN StringError("MemoryError", opts)
            ELSE LET bytes == PyUnicode_AsUTF8String(op.data)
                 IN  StringOk(bytes, Len(bytes), EncObj(bytes), opts)
    ELSE IF op.kind = "buffer1" THEN string_get_from_bytes(op, options, oom)
    ELSE IF op.kind \in {"buffer2", "buffer4"} THEN
        IF EncoderRefuses(op.data, b)
        THEN StringError("UnicodeEncodeError", options)
        ELSE IF b.new_unicode \/ (op.kind = "buffer4") = b.wide
        THEN string_get_from_pyunicode(op, options, oom)
        ELSE StringError("TypeError", options)
    ELSE StringError("TypeError", options)

(***************************************************************************)
(* Offset conversions (ISUTF8, UTF8LOOPBODY and the two converters)        *)
(***************************************************************************)
(* s[k] as C reads it: the bytes object is followed by a NUL *)
ByteAt(s, k) == IF k < Len(s) THEN s[k + 1] ELSE 0

ISUTF8(c) == (c \div 64) % 4 # 2

(* the value of i after one UTF8LOOPBODY *)
UTF8LOOPBODY(s, i, wide) ==
    IF ISUTF8(ByteAt(s, i + 1)) THEN i + 1
    ELSE IF ISUTF8(ByteAt(s, i + 2)) THEN i + 2
    ELSE IF ~wide THEN i + 3
    ELSE IF ISUTF8(ByteAt(s, i + 3)) THEN i + 3
    ELSE i + 4

(* while ((i < offset) && (i < length)) UTF8LOOPBODY; gives <<i, charnum>> *)
RECURSIVE ByteLoop(_, _, _, _, _)
ByteLoop(str, offset, i, charnum, wide) ==
    IF i < offset /\ i < str.length
    THEN ByteLoop(str, offset, UTF8LOOPBODY(str.string, i, wide), charnum + 1, wide)
    ELSE <<i, charnum>>

(* while ((charnum < offset) && (i < length)) UTF8LOOPBODY; gives <<i, charnum>> *)
RECURSIVE CharLoop(_, _, _, _, _)
CharLoop(str, offset, i, charnum, wide) ==
    IF charnum < offset /\ i < str.length
    THEN CharLoop(str, offset, UTF8LOOPBODY(str.string, i, wide), charnum + 1, wide)
    ELSE <<i, charnum>>

(* usePos / useEnd: the pointer is not NULL.  Gives <<pos, endpos>>. *)
pypcre_string_byte_to_char_offsets(str, usePos, pos, useEnd, endpos, wide) ==
    LET first  == IF usePos /\ pos >= 0
                  THEN ByteLoop(str, pos, 0, 0, wide) ELSE <<0, 0>>
        newpos == IF usePos /\ pos >= 0 THEN first[2] ELSE pos
        second == IF useEnd /\ endpos >= 0
                  THEN ByteLoop(str, endpos, first[1], first[2], wide) ELSE first
        newend == IF useEnd /\ endpos >= 0 THEN second[2] ELSE endpos
    IN  <<newpos, newend>>

(* the conversion left out: character offsets taken for byte offsets *)
pypcre_string_char_to_byte_offsets_left_out(str, usePos, pos, useEnd, endpos, wide) ==
    <<pos, endpos>>

pypcre_string_char_to_byte_offsets(str, usePos, pos, useEnd, endpos, wide) ==
    LET first  == IF usePos /\ pos >= 0
                  THEN CharLoop(str, pos, 0, 0, wide) ELSE <<0, 0>>
        newpos == IF usePos /\ pos >= 0 THEN first[1] ELSE pos
        second == IF useEnd /\ endpos >= 0
                  THEN CharLoop(str, endpos, first[1], first[2], wide) ELSE first
        newend == IF useEnd /\ endpos >= 0 THEN second[1] ELSE endpos
    IN  <<newpos, newend>>

(***************************************************************************)
(* Error codes of the library the binding names or receives                *)
(***************************************************************************)
PCRE_ERROR_NOMATCH == -1
PCRE_ERROR_UNKNOWN_OPCODE == -5
PCRE_ERROR_BADMAGIC == -4
PCRE_ERROR_NOMEMORY == -6
PCRE_ERROR_MATCHLIMIT == -8
PCRE_ERROR_BADUTF8 == -10
PCRE_ERROR_BADUTF8_OFFSET == -11
PCRE_ERROR_RECURSIONLIMIT == -21
PYPCRE_ERROR_STUDY == -50
COMPILE_ERROR_TOO_BIG == 5
COMPILE_ERROR_MISSING_PAREN == 14
ERROR_EMPTY_NAME == 84

(* PyArg_ParseTuple, format "i": an int argument converts to a C int, or   *)
(* the call raises OverflowError before it does anything.  Flags are sets  *)
(* of option bits; "BIT40" is a bit no C int has.                          *)
FitsCInt(flags) == "BIT40" \notin flags

(* set_pcre_error without the case for the quantifier code *)
set_pcre_error_without_overflow_case(rc) ==
    IF rc = PCRE_ERROR_NOMEMORY THEN [exc |-> "MemoryError", errcode |-> 0]
    ELSE IF rc = PCRE_ERROR_NOMATCH THEN [exc |-> "NoMatch", errcode |-> 0]
    ELSE [exc |-> "PCREError", errcode |-> rc]

(* set_pcre_error with the two limit codes taken for "did not match" *)
set_pcre_error_limits_as_nomatch(rc) ==
    IF rc = PCRE_ERROR_NOMEMORY THEN [exc |-> "MemoryError", errcode |-> 0]
    ELSE IF rc \in {PCRE_ERROR_NOMATCH, PCRE_ERROR_MATCHLIMIT, PCRE_ERROR_RECURSIONLIMIT}
    THEN [exc |-> "NoMatch", errcode |-> 0]
    ELSE IF rc = COMPILE_ERROR_TOO_BIG THEN [exc |-> "OverflowError", errcode |-> 0]
    ELSE [exc |-> "PCREError", errcode |-> rc]

(* set_pcre_error: the exception raised for a PCRE error code *)
set_pcre_error(rc) ==
    IF rc = PCRE_ERROR_NOMEMORY THEN [exc |-> "MemoryError", errcode |-> 0]
    ELSE IF rc = PCRE_ERROR_NOMATCH THEN [exc |-> "NoMatch", errcode |-> 0]
    ELSE IF rc = COMPILE_ERROR_TOO_BIG THEN [exc |-> "OverflowError", errcode |-> 0]
    ELSE [exc |-> "PCREError", errcode |-> rc]

(***************************************************************************)
(* The compiled pattern block (a pcre pointer).  The library returns one   *)
(* block of `size' bytes: a header (magic, size, options, capture count), *)
(* the name table and the byte code.  `alloc' is the number of bytes the   *)
(* block really has; `prog' names the byte code.                           *)
(***************************************************************************)
NullCode == [magic |-> "", size |-> 0, alloc |-> 0, options |-> {},
             top_bracket |-> 0, name_table |-> <<>>, prog |-> "NULL"]

NameEntry(i, n) == [index |-> i, name |-> n]

(* texts of the patterns tried, as code points *)
TextEmpty == <<>>                                        \*
TextAlt   == <<40, 63, 80, 60, 120, 62, 97, 41, 124, 40, 46, 41>>  \* (?P<x>a)|(.)
TextKLook == <<40, 63, 61, 97, 92, 75, 41>>              \* (?=a\K)
TextOpen  == <<40>>                                      \* (
TextEOpen == <<233, 40>>                                 \* e-acute (
TextHuge  == <<97, 123, 57, 57, 57, 57, 57, 125>>        \* a{99999}
TextWideOpen == <<128512, 40>>                           \* U+1F600 (
TextNoName == <<40, 63, 80, 60, 62, 97, 41>>             \* (?P<>a)

CompiledBlock(prog, size, options, groups, names) ==
    [magic |-> "PCRE", size |-> size, alloc |-> size, options |-> options,
     top_bracket |-> groups, name_table |-> names, prog |-> prog]

(* pcre_compile2 over the patterns above; string is the UTF-8 text.        *)
(* Gives [code, rc, offset]: code is NullCode when compilation fails, rc   *)
(* and offset are then the error code and the byte offset of the error.    *)
(* A group with an empty name is compiled, as the libraries do that the    *)
(* check in make_groupindex is written for; a library that refuses the     *)
(* text fails like any other syntax error.                                 *)
pcre_compile2(string, options) ==
    LET ok(prog, groups, names) ==
            [code |-> CompiledBlock(prog, 48 + Len(string) + 8 * Len(names),
                                    options, groups, names),
             rc |-> 0, offset |-> 0]
        bad(rc, o) == [code |-> NullCode, rc |-> rc, offset |-> o]
    IN  IF string = TextEmpty THEN ok("EMPTY", 0, <<>>)
        ELSE IF string = TextAlt THEN ok("ALT", 2, <<NameEntry(1, "x")>>)
        ELSE IF string = TextKLook THEN ok("KLOOK", 0, <<>>)
        ELSE IF string = TextNoName THEN ok("NONAME", 1, <<NameEntry(1, "")>>)
        ELSE IF string = TextHuge THEN bad(COMPILE_ERROR_TOO_BIG, 7)
        ELSE bad(COMPILE_ERROR_MISSING_PAREN, Len(string))

(* pcre_fullinfo: fails on a block that does not start with the magic number *)
pcre_fullinfo_rc(code) == IF code.magic = "PCRE" THEN 0 ELSE PCRE_ERROR_BADMAGIC

(* A block is whole when every byte its header declares is there *)
BlockWhole(code) == code.magic = "PCRE" /\ code.alloc >= code.size

(***************************************************************************)
(* Serialized patterns: the bytes object dumps() returns and loads= takes  *)
(***************************************************************************)
(* PyBytes_FromStringAndSize(code, size): size bytes read from the block *)
BytesOfBlock(code) ==
    [nbytes |-> code.size, magic |-> code.magic, size |-> code.size,
     options |-> code.options, top_bracket |-> code.top_bracket,
     name_table |-> code.name_table,
     prog |-> IF code.alloc >= code.size THEN code.prog ELSE "OVERREAD"]

(* pcre_malloc(size) and memcpy(code, bytes, size) *)
BlockOfBytes(loads) ==
    [magic |-> loads.magic, size |-> loads.size, alloc |-> loads.nbytes,
     options |-> loads.options, top_bracket |-> loads.top_bracket,
     name_table |-> loads.name_table, prog |-> loads.prog]

(* make_groupindex without the check of the name: every entry goes into    *)
(* the dict                                                                *)
make_groupindex_accepts_empty_name(code) ==
    [ok |-> TRUE,
     dict |-> {<<code.name_table[k].name, code.name_table[k].index>> :
                  k \in 1..Len(code.name_table)}]

(* make_groupindex: the name -> index dict, or the error it raises *)
RECURSIVE DictOfTable(_, _)
DictOfTable(table, dict) ==
    IF table = <<>> THEN [ok |-> TRUE, dict |-> dict]
    ELSE IF Head(table).name = "" THEN [ok |-> FALSE, dict |-> {}]
    ELSE DictOfTable(Tail(table),
            {e \in dict : e[1] # Head(table).name}
            \cup {<<Head(table).name, Head(table).index>>})

make_groupindex(code) == DictOfTable(code.name_table, {})

(***************************************************************************)
(* pcre_study and pcre_exec, by their documented interface                 *)
(***************************************************************************)
NullExtra == [null |-> TRUE, of |-> NullCode]

(* study data is computed from one block and describes that block only *)
ExtraFits(extra, code) == extra.null \/ extra.of = code

(* options: the study options; useful: the library found something to     *)
(* record; oom: it ran out of memory.  err is the error string being set. *)
pcre_study(code, options, useful, oom) ==
    IF "UNKNOWN" \in options \/ oom
    THEN [extra |-> NullExtra, err |-> TRUE]
    ELSE IF useful
    THEN [extra |-> [null |-> FALSE, of |-> code], err |-> FALSE]
    ELSE [extra |-> NullExtra, err |-> FALSE]

(* the subject is well-formed UTF-8 up to size, as the library's check of  *)
(* a subject has it                                                        *)
RECURSIVE ValidUTF8(_, _, _)
ValidUTF8(s, i, size) ==
    IF i >= size THEN TRUE
    ELSE LET c == ByteAt(s, i)
             n == IF c < 128 THEN 1
                  ELSE IF c >= 194 /\ c < 224 THEN 2
                  ELSE IF c >= 224 /\ c < 240 THEN 3
                  ELSE IF c >= 240 /\ c < 245 THEN 4
                  ELSE 0
         IN  /\ n > 0
             /\ i + n <= size
             /\ \A k \in (i + 1)..(i + n - 1) : ~ISUTF8(ByteAt(s, k))
             /\ c = 224 => ByteAt(s, i + 1) >= 160      \* overlong
             /\ c = 237 => ByteAt(s, i + 1) < 160       \* surrogate
             /\ c = 240 => ByteAt(s, i + 1) >= 144      \* overlong
             /\ c = 244 => ByteAt(s, i + 1) < 144       \* above U+10FFFF
             /\ ValidUTF8(s, i + n, size)

(* the end of the character that starts at i: the interpreter steps over  *)
(* one byte and the continuation bytes that follow it inside the subject  *)
RECURSIVE AfterChar(_, _, _)
AfterChar(s, k, size) ==
    IF k < size /\ ~ISUTF8(ByteAt(s, k)) THEN AfterChar(s, k + 1, size) ELSE k

RECURSIVE FindByte(_, _, _, _)
FindByte(s, c, i, size) ==
    IF i >= size THEN -1
    ELSE IF ByteAt(s, i) = c THEN i
    ELSE FindByte(s, c, i + 1, size)

(* the byte code at work: the pairs of the match, or <<>> for no match *)
RunProgram(prog, s, size, so) ==
    IF prog = "EMPTY" THEN <<so, so>>
    ELSE IF prog = "ALT" THEN
        IF so >= size THEN <<>>
        ELSE IF ByteAt(s, so) = 97 THEN <<so, so + 1, so, so + 1>>
        ELSE LET e == AfterChar(s, so + 1, size) IN <<so, e, -1, -1, so, e>>
    ELSE IF prog = "KLOOK" THEN
        LET i == FindByte(s, 97, so, size)
        IN  IF i < 0 THEN <<>> ELSE <<i + 1, i>>
    ELSE <<>>

KnownProgs == {"EMPTY", "ALT", "KLOOK"}

(* env is what the surroundings do to this call:                          *)
(*   "nomemory", "matchlimit", "recursionlimit": the resource runs out;   *)
(*   "opcode": a block that is not whole is read past its end and the     *)
(*             interpreter meets a byte that is no opcode;                *)
(*   "skip":   study data of another block rules the start positions out; *)
(*   "none":   nothing.                                                   *)
(* Gives [rc, ovector]: ovector holds the 2 * (ovecsize / 3) offsets the  *)
(* library reports; pairs of groups that did not take part are -1.        *)
pcre_exec(code, extra, string, size, startoffset, options, ovecsize, env) ==
    LET checked == "UTF8" \in code.options /\ "NO_UTF8_CHECK" \notin options
        fail(rc) == [rc |-> rc, ovector |-> [k \in 1..(2 * (ovecsize \div 3)) |-> -1]]
        pairs   == RunProgram(code.prog, string, size, startoffset)
        room    == 2 * (ovecsize \div 3)
    IN  IF code.magic # "PCRE" THEN fail(PCRE_ERROR_BADMAGIC)
        ELSE IF checked /\ ~ValidUTF8(string, 0, size) THEN fail(PCRE_ERROR_BADUTF8)
        ELSE IF checked /\ startoffset < size /\ ~ISUTF8(ByteAt(string, startoffset))
            THEN fail(PCRE_ERROR_BADUTF8_OFFSET)
        ELSE IF env = "nomemory" THEN fail(PCRE_ERROR_NOMEMORY)
        ELSE IF env = "matchlimit" THEN fail(PCRE_ERROR_MATCHLIMIT)
        ELSE IF env = "recursionlimit" THEN fail(PCRE_ERROR_RECURSIONLIMIT)
        ELSE IF (~BlockWhole(code) /\ env = "opcode") \/ code.prog \notin KnownProgs
            THEN fail(PCRE_ERROR_UNKNOWN_OPCODE)
        ELSE IF ~ExtraFits(extra, code) /\ env = "skip" THEN fail(PCRE_ERROR_NOMATCH)
        ELSE IF pairs = <<>> THEN fail(PCRE_ERROR_NOMATCH)
        ELSE [rc |-> IF Len(pairs) > room THEN 0 ELSE Len(pairs) \div 2,
              ovector |-> [k \in 1..room |-> IF k <= Len(pairs) THEN pairs[k] ELSE -1]]

(***************************************************************************)
(* Pattern                                                                 *)
(***************************************************************************)
(* a PyPatternObject as tp_alloc leaves it: every field zero *)
NewPattern == [pattern |-> NullObj, groupindex |-> {}, code |-> NullCode,
               extra |-> NullExtra, jit_stack |-> FALSE, flags |-> {},
               groups |-> 0]

Result(op, exc, errcode, val) ==
    [op |-> op, exc |-> exc, errcode |-> errcode, val |-> val]

Raised(op, err, val) == Result(op, err.exc, err.errcode, val)

assert_pattern_ready(self) == self.code # NullCode

NoLoads == [nbytes |-> -1, magic |-> "", size |-> 0, options |-> {},
            top_bracket |-> 0, name_table |-> <<>>, prog |-> "NULL"]

(* The block __init__ works on, before it touches self: the copy of the   *)
(* loads bytes, or the result of compiling pattern.  Gives [code, res].   *)
pattern_init_block(pattern, flags, loads, b, oom) ==
    IF loads # NoLoads
    THEN IF oom
         THEN [code |-> NullCode, res |-> Result("pattern_init", "MemoryError", 0, 0)]
         ELSE [code |-> BlockOfBytes(loads), res |-> Result("pattern_init", "none", 0, 0)]
    ELSE LET got == pypcre_string_get(pattern, flags, b, oom)
             cmp == pcre_compile2(got.str.string, got.options \cup {"UTF8"})
             o   == IF got.str.op # pattern
                    THEN pypcre_string_byte_to_char_offsets(
                             got.str, TRUE, cmp.offset, FALSE, -1, b.wide)[1]
                    ELSE cmp.offset
         IN  IF got.rc < 0
             THEN [code |-> NullCode, res |-> Result("pattern_init", got.exc, 0, 0)]
             ELSE IF cmp.code = NullCode
             THEN [code |-> NullCode,
                   res |-> Raised("pattern_init", set_pcre_error(cmp.rc), o)]
             ELSE [code |-> cmp.code, res |-> Result("pattern_init", "none", 0, 0)]

(* Pattern.__init__(pattern, flags, loads): gives [self, res] *)
pattern_init(self, pattern, flags, loads, b, oom) ==
    LET blk == pattern_init_block(pattern, flags, loads, b, oom)
        rc  == pcre_fullinfo_rc(blk.code)
        gi  == make_groupindex(blk.code)
    IN  IF ~FitsCInt(flags)
        THEN [self |-> self, res |-> Result("pattern_init", "OverflowError", 0, 0)]
        ELSE IF blk.res.exc # "none" THEN [self |-> self, res |-> blk.res]
        ELSE IF rc # 0
        THEN [self |-> self, res |-> Raised("pattern_init", set_pcre_error(rc), 0)]
        ELSE IF ~gi.ok
        THEN [self |-> self,
              res |-> Raised("pattern_init", set_pcre_error(ERROR_EMPTY_NAME), 0)]
        ELSE [self |-> [self EXCEPT !.code = blk.code,
                                    !.pattern = pattern,
                                    !.groupindex = gi.dict,
                                    !.flags = flags,
                                    !.groups = blk.code.top_bracket],
              res |-> Result("pattern_init", "none", 0, 0)]

(* Pattern.study(options): gives [self, res]; the value is the bool returned *)
pattern_study(self, options, useful, oom) ==
    LET st == pcre_study(self.code, options, useful, oom)
    IN  IF ~FitsCInt(options)
        THEN [self |-> self, res |-> Result("study", "OverflowError", 0, FALSE)]
        ELSE IF ~assert_pattern_ready(self)
        THEN [self |-> self, res |-> Result("study", "AssertionError", 0, FALSE)]
        ELSE IF st.err
        THEN [self |-> self,
              res |-> Raised("study", set_pcre_error(PYPCRE_ERROR_STUDY), FALSE)]
        ELSE [self |-> [self EXCEPT !.extra = st.extra],
              res |-> Result("study", "none", 0, ~st.extra.null)]

(* Pattern.set_jit_stack(startsize, maxsize).  fits: both sizes convert to *)
(* a C int; api: the extension was built with the JIT API; jit: the        *)
(* library reports JIT support; oom: the stack cannot be allocated.        *)
pattern_set_jit_stack(self, fits, api, jit, oom) ==
    IF ~fits
    THEN [self |-> self, res |-> Result("set_jit_stack", "OverflowError", 0, 0)]
    ELSE IF ~api \/ ~jit \/ self.extra.null
    THEN [self |-> self, res |-> Result("set_jit_stack", "AssertionError", 0, 0)]
    ELSE IF oom
    THEN [self |-> self, res |-> Result("set_jit_stack", "MemoryError", 0, 0)]
    ELSE [self |-> [self EXCEPT !.jit_stack = TRUE],
          res |-> Result("set_jit_stack", "none", 0, 0)]

(* Pattern.dumps(): the value is the bytes object returned *)
pattern_dumps(self) ==
    IF ~assert_pattern_ready(self)
    THEN Result("dumps", "AssertionError", 0, NoLoads)
    ELSE IF pcre_fullinfo_rc(self.code) # 0
    THEN Raised("dumps", set_pcre_error(pcre_fullinfo_rc(self.code)), NoLoads)
    ELSE Result("dumps", "none", 0, BytesOfBlock(self.code))

(* self == otherobj / self != otherobj; op is "EQ", "NE" or another       *)
(* comparison; otherobj is a Pattern or some other object                  *)
pattern_richcompare(self, otherobj, op) ==
    LET other == otherobj
        equal == IF self.code = other.code THEN TRUE
                 ELSE IF self.code = NullCode \/ other.code = NullCode THEN FALSE
                 ELSE IF self.code.size # other.code.size THEN FALSE
                 ELSE BytesOfBlock(self.code) = BytesOfBlock(other.code)
        failed == self.code # other.code /\ self.code # NullCode
                  /\ other.code # NullCode
                  /\ (pcre_fullinfo_rc(self.code) # 0 \/ pcre_fullinfo_rc(other.code) # 0)
    IN  IF "code" \notin DOMAIN otherobj \/ op \notin {"EQ", "NE"}
        THEN Result("richcompare", "none", 0, "NotImplemented")
        ELSE IF failed
        THEN Raised("richcompare", set_pcre_error(PCRE_ERROR_BADMAGIC), "")
        ELSE Result("richcompare", "none", 0,
                    IF (op = "EQ") = equal THEN "True" ELSE "False")

(***************************************************************************)
(* Match                                                                   *)
(***************************************************************************)
(* a PyMatchObject as tp_alloc leaves it.  pattern is "NULL" or "pat", the *)
(* one Pattern object; ovector is <<>> for a NULL pointer and otherwise    *)
(* the first two thirds of the array, the offsets the library reports.     *)
NewMatch == [pattern |-> "NULL", subject |-> NullObj, str |-> NullStr,
             ovector |-> <<>>, startpos |-> 0, endpos |-> 0, flags |-> {},
             lastindex |-> 0]

assert_match_ready(op) == op.ovector # <<>>

MatchVal(engine, rc, late) == [engine |-> engine, rc |-> rc, late |-> late]

(* The locals of Match.__init__ once the arguments are parsed: the string  *)
(* extracted from the subject, pos and endpos after the bounds check, and  *)
(* what pcre_exec gives for them.  env: "string" and "ovector" make the    *)
(* allocation of the re-encoded string and of the span array fail; the     *)
(* other values go to pcre_exec.                                           *)
match_init_locals(pattern, subject, pos, endpos, flags, b, env) ==
    LET got      == pypcre_string_get(subject, flags, b, env = "string")
        str      == got.str
        pos1     == IF pos < 0 THEN 0 ELSE pos
        endpos1  == IF endpos < 0 \/ endpos > str.length THEN str.length ELSE endpos
        conv     == IF str.op # subject
                    THEN pypcre_string_char_to_byte_offsets(
                             str, TRUE, pos1, TRUE, endpos1, b.wide)
                    ELSE <<pos1, endpos1>>
        ovecsize == (pattern.groups + 1) * 3
    IN  [got |-> got, pos |-> pos1, endpos |-> endpos1,
         startoffset |-> conv[1], size |-> conv[2],
         ex |-> pcre_exec(pattern.code, pattern.extra, str.string, conv[2],
                          conv[1], got.options \ {"UTF8"}, ovecsize, env)]

(* Match.__init__ that stores the subject and the string in self before it *)
(* runs the engine, so that a failing attempt leaves them behind           *)
match_init_stores_before_exec(self, pattern, subject, pos, endpos, flags, b, env) ==
    LET l == match_init_locals(pattern, subject, pos, endpos, flags, b, env)
        early == [self EXCEPT !.subject = subject, !.str = l.got.str]
        fail(me, exc, errcode, val) ==
            [self |-> me, res |-> Result("match_init", exc, errcode, val)]
    IN  IF ~FitsCInt(flags)
        THEN fail(self, "OverflowError", 0, MatchVal(FALSE, 0, FALSE))
        ELSE IF ~assert_pattern_ready(pattern)
        THEN fail(self, "AssertionError", 0, MatchVal(FALSE, 0, FALSE))
        ELSE IF l.got.rc < 0
        THEN fail(self, l.got.exc, 0, MatchVal(FALSE, 0, FALSE))
        ELSE IF l.pos > l.endpos
        THEN fail(self, "NoMatch", 0, MatchVal(FALSE, 0, TRUE))
        ELSE IF env = "ovector"
        THEN fail(early, "MemoryError", 0, MatchVal(FALSE, 0, FALSE))
        ELSE IF l.ex.rc < 0
        THEN fail(early, set_pcre_error(l.ex.rc).exc, set_pcre_error(l.ex.rc).errcode,
                  MatchVal(TRUE, l.ex.rc, FALSE))
        ELSE [self |-> [pattern |-> "pat", subject |-> subject, str |-> l.got.str,
                        ovector |-> l.ex.ovector, startpos |-> l.pos,
                        endpos |-> l.endpos, flags |-> flags,
                        lastindex |-> l.ex.rc - 1],
              res |-> Result("match_init", "none", 0, MatchVal(TRUE, l.ex.rc, FALSE))]

(* Match.__init__(pattern, string, pos, endpos, flags): gives [self, res]. *)
match_init(self, pattern, subject, pos, endpos, flags, b, env) ==
    LET l == match_init_locals(pattern, subject, pos, endpos, flags, b, env)
        fail(exc, errcode, val) ==
            [self |-> self, res |-> Result("match_init", exc, errcode, val)]
    IN  IF ~FitsCInt(flags)
        THEN fail("OverflowError", 0, MatchVal(FALSE, 0, FALSE))
        ELSE IF ~assert_pattern_ready(pattern)
        THEN fail("AssertionError", 0, MatchVal(FALSE, 0, FALSE))
        ELSE IF l.got.rc < 0
        THEN fail(l.got.exc, 0, MatchVal(FALSE, 0, FALSE))
        ELSE IF l.pos > l.endpos
        THEN fail("NoMatch", 0, MatchVal(FALSE, 0, TRUE))
        ELSE IF env = "ovector"
        THEN fail("MemoryError", 0, MatchVal(FALSE, 0, FALSE))
        ELSE IF l.ex.rc < 0
        THEN fail(set_pcre_error(l.ex.rc).exc, set_pcre_error(l.ex.rc).errcode,
                  MatchVal(TRUE, l.ex.rc, FALSE))
        ELSE [self |-> [pattern |-> "pat", subject |-> subject, str |-> l.got.str,
                        ovector |-> l.ex.ovector, startpos |-> l.pos,
                        endpos |-> l.endpos, flags |-> flags,
                        lastindex |-> l.ex.rc - 1],
              res |-> Result("match_init", "none", 0, MatchVal(TRUE, l.ex.rc, FALSE))]

(***************************************************************************)
(* Group lookup                                                            *)
(***************************************************************************)
(* the objects a caller passes as a group index *)
IntIndex(i)  == [kind |-> "int", val |-> i, name |-> ""]
NameIndex(n) == [kind |-> "str", val |-> 0, name |-> n]
BigIndex     == [kind |-> "bigint", val |-> 0, name |-> ""]   \* an int above PY_SSIZE_T_MAX
OtherIndex   == [kind |-> "other", val |-> 0, name |-> ""]    \* neither int nor a key
NoIndex      == [kind |-> "absent", val |-> 0, name |-> ""]   \* argument left out

(* PyDict_GetItem(groupindex, key) as a group number, -1 when absent *)
DictGet(dict, key) ==
    IF \E e \in dict : e[1] = key
    THEN (CHOOSE e \in dict : e[1] = key)[2]
    ELSE -1

(* get_index that drops the error of the conversion to Py_ssize_t *)
get_index_clears_conversion_error(op, index) ==
    LET i == IF index.kind = "int" THEN index.val
             ELSE IF index.kind = "str" THEN DictGet(op.groupindex, index.name)
             ELSE -1
    IN  IF i >= 0 /\ i <= op.groups THEN [i |-> i, exc |-> "none"]
        ELSE [i |-> -1, exc |-> "IndexError"]

(* get_index: gives [i, exc]; i is -1 when an exception is set *)
get_index(op, index) ==
    LET i == IF index.kind = "int" THEN index.val
             ELSE IF index.kind = "str" THEN DictGet(op.groupindex, index.name)
             ELSE -1
    IN  IF index.kind = "bigint" THEN [i |-> -1, exc |-> "OverflowError"]
        ELSE IF i >= 0 /\ i <= op.groups THEN [i |-> i, exc |-> "none"]
        ELSE [i |-> -1, exc |-> "IndexError"]

(* op->ovector[k].  An int outside the offsets the library reported is the *)
(* library's workspace or lies behind the array: it holds any value, junk. *)
OvectorAt(op, k, junk) ==
    IF k < Len(op.ovector) THEN op.ovector[k + 1] ELSE junk

(* get_span: gives [exc, pos, endpos]; junk is <<j1, j2>>, what the two   *)
(* reads give when they fall outside the reported offsets                 *)
get_span(op, pattern, index, usePos, useEnd, junk, b) ==
    LET pos0 == OvectorAt(op, index * 2, junk[1])
        end0 == OvectorAt(op, index * 2 + 1, junk[2])
        conv == IF op.subject # op.str.op
                THEN pypcre_string_byte_to_char_offsets(
                         op.str, usePos, pos0, useEnd, end0, b.wide)
                ELSE <<pos0, end0>>
    IN  IF index < 0 \/ index > pattern.groups
        THEN [exc |-> "IndexError", pos |-> -1, endpos |-> -1]
        ELSE IF usePos /\ useEnd /\ pos0 > end0 /\ end0 >= 0
        THEN [exc |-> "RuntimeError", pos |-> -1, endpos |-> -1]
        ELSE [exc |-> "none", pos |-> conv[1], endpos |-> conv[2]]

(* get_slice: gives [exc, val]; val is [default, pos, endpos], the default *)
(* object or the slice subject[pos:endpos]                                 *)
Slice(pos, endpos) == [default |-> FALSE, pos |-> pos, endpos |-> endpos]
Default == [default |-> TRUE, pos |-> -1, endpos |-> -1]

get_slice(op, pattern, index, junk, b) ==
    LET sp == get_span(op, pattern, index, TRUE, TRUE, junk, b)
    IN  IF sp.exc # "none" THEN [exc |-> sp.exc, val |-> Default]
        ELSE IF sp.pos >= 0 /\ sp.endpos >= 0
        THEN [exc |-> "none", val |-> Slice(sp.pos, sp.endpos)]
        ELSE [exc |-> "none", val |-> Default]

get_slice_o(op, pattern, index, junk, b) ==
    LET gi == get_index(pattern, index)
    IN  IF gi.i < 0 THEN [exc |-> gi.exc, val |-> Default]
        ELSE get_slice(op, pattern, gi.i, junk, b)

(***************************************************************************)
(* Methods and getters of Match: each gives the Result of the call         *)
(***************************************************************************)
NotReady(op) == Result(op, "AssertionError", 0, 0)

(* the slices of a tuple of group arguments, up to the first failure *)
RECURSIVE SlicesOf(_, _, _, _, _)
SlicesOf(self, pattern, args, junk, b) ==
    IF args = <<>> THEN [exc |-> "none", val |-> <<>>]
    ELSE LET head == get_slice_o(self, pattern, Head(args), junk, b)
             rest == SlicesOf(self, pattern, Tail(args), junk, b)
         IN  IF head.exc # "none" THEN [exc |-> head.exc, val |-> <<>>]
             ELSE IF rest.exc # "none" THEN rest
             ELSE [exc |-> "none", val |-> <<head.val>> \o rest.val]

match_group(self, pattern, args, junk, b) ==
    IF ~assert_match_ready(self) THEN NotReady("group")
    ELSE IF Len(args) = 0
    THEN LET r == get_slice(self, pattern, 0, junk, b)
         IN  Result("group", r.exc, 0, r.val)
    ELSE IF Len(args) = 1
    THEN LET r == get_slice_o(self, pattern, args[1], junk, b)
         IN  Result("group", r.exc, 0, r.val)
    ELSE LET r == SlicesOf(self, pattern, args, junk, b)
         IN  Result("group", r.exc, 0, r.val)

(* start(), end() and span() share their shape: which is the method name *)
SpanCall(which, self, pattern, index, junk, b) ==
    LET gi == IF index = NoIndex THEN [i |-> 0, exc |-> "none"]
              ELSE get_index(pattern, index)
        sp == get_span(self, pattern, gi.i, which # "end", which # "start", junk, b)
    IN  IF ~assert_match_ready(self) THEN NotReady(which)
        ELSE IF gi.i < 0 THEN Result(which, gi.exc, 0, 0)
        ELSE IF sp.exc # "none" THEN Result(which, sp.exc, 0, 0)
        ELSE Result(which, "none", 0,
                    IF which = "start" THEN sp.pos
                    ELSE IF which = "end" THEN sp.endpos
                    ELSE <<sp.pos, sp.endpos>>)

match_start(self, pattern, index, junk, b) ==
    SpanCall("start", self, pattern, index, junk, b)

match_end(self, pattern, index, junk, b) ==
    SpanCall("end", self, pattern, index, junk, b)

match_span(self, pattern, index, junk, b) ==
    SpanCall("span", self, pattern, index, junk, b)

(* groups(): the slices of groups 1..groups, up to the first failure *)
RECURSIVE GroupSlices(_, _, _, _, _)
GroupSlices(self, pattern, index, junk, b) ==
    IF index > pattern.groups THEN [exc |-> "none", val |-> <<>>]
    ELSE LET head == get_slice(self, pattern, index, junk, b)
             rest == GroupSlices(self, pattern, index + 1, junk, b)
         IN  IF head.exc # "none" THEN [exc |-> head.exc, val |-> <<>>]
             ELSE IF rest.exc # "none" THEN rest
             ELSE [exc |-> "none", val |-> <<head.val>> \o rest.val]

match_groups(self, pattern, junk, b) ==
    IF ~assert_match_ready(self) THEN NotReady("groups")
    ELSE LET r == GroupSlices(self, pattern, 1, junk, b)
         IN  Result("groups", r.exc, 0, r.val)

(* groupdict(): name -> slice, or the failure of one of the lookups *)
match_groupdict(self, pattern, junk, b) ==
    LET one(e) == get_slice_o(self, pattern, IntIndex(e[2]), junk, b)
    IN  IF ~assert_match_ready(self) THEN NotReady("groupdict")
        ELSE IF \E e \in pattern.groupindex : one(e).exc # "none"
        THEN Result("groupdict",
                    one(CHOOSE e \in pattern.groupindex : one(e).exc # "none").exc,
                    0, {})
        ELSE Result("groupdict", "none", 0,
                    {<<e[1], one(e).val>> : e \in pattern.groupindex})

None == [none |-> TRUE, value |-> 0, name |-> ""]

(* lastindex: the getter does not ask whether the Match is ready *)
match_lastindex_getter(self) ==
    IF self.lastindex > 0
    THEN Result("lastindex", "none", 0,
                [none |-> FALSE, value |-> self.lastindex, name |-> ""])
    ELSE Result("lastindex", "none", 0, None)

match_lastgroup_getter(self, pattern) ==
    IF ~assert_match_ready(self) THEN NotReady("lastgroup")
    ELSE IF \E e \in pattern.groupindex : e[2] = self.lastindex
    THEN Result("lastgroup", "none", 0,
                [none |-> FALSE, value |-> self.lastindex,
                 name |-> (CHOOSE e \in pattern.groupindex : e[2] = self.lastindex)[1]])
    ELSE Result("lastgroup", "none", 0, None)

(* regs: the pairs of the span array for groups 0..groups, as stored *)
match_regs_getter(self, pattern, junk) ==
    IF ~assert_match_ready(self) THEN NotReady("regs")
    ELSE Result("regs", "none", 0,
                [i \in 0..pattern.groups |->
                    <<OvectorAt(self, i * 2, junk[1]),
                      OvectorAt(self, i * 2 + 1, junk[2])>>])

(***************************************************************************)
(* What the callers pass in                                                *)
(***************************************************************************)
(* Py_UNICODE_WIDE and PY3_NEW_UNICODE, as the host's headers set them *)
Builds == {[wide |-> w, new_unicode |-> n] : w \in BOOLEAN, n \in BOOLEAN}

(* the subject and the flags of a match attempt: text of 1, 2 and 4 byte   *)
(* characters, Latin-1 bytes, bytes declared UTF-8 that are and that are   *)
(* not UTF-8, and an object that is no string at all                       *)
MatchArgs ==
    {[subject |-> Obj("unicode", d), flags |-> {}] :
        d \in {<<>>, <<97>>, <<233>>, <<128512>>, <<233, 97>>}}
    \cup {[subject |-> Obj("bytes", <<233, 97>>), flags |-> {}],
          [subject |-> Obj("bytes", <<195, 169>>), flags |-> {"UTF8"}],
          [subject |-> Obj("bytes", <<233, 97>>), flags |-> {"UTF8"}],
          [subject |-> Obj("other", <<>>), flags |-> {}]}

PosArgs == {-1} \cup 1..MaxPos
EndArgs == -1..MaxPos

(* what goes wrong around a match attempt is tried on whole subjects *)
MatchCalls ==
    {[subject |-> a.subject, flags |-> a.flags, pos |-> p, endpos |-> e, env |-> "none"] :
        a \in MatchArgs, p \in PosArgs, e \in EndArgs}
    \cup {[subject |-> Obj("unicode", <<233, 97>>), flags |-> {},
           pos |-> -1, endpos |-> -1, env |-> v] :
            v \in {"nomemory", "matchlimit", "recursionlimit", "string", "ovector"}}

(* the patterns of the match attempts, and one that does not compile *)
CompileArgs ==
    {[pattern |-> Obj("unicode", t), flags |-> {}, loads |-> NoLoads, oom |-> FALSE] :
        t \in {TextEmpty, TextAlt, TextOpen}}

(* the patterns whose matches are looked into *)
LookupPatterns ==
    {[pattern |-> Obj("unicode", t), flags |-> {}, loads |-> NoLoads, oom |-> FALSE] :
        t \in {TextEmpty, TextAlt, TextKLook, TextOpen}}

(* the match attempts whose results are looked into: whole subjects, and   *)
(* a window that starts behind a two byte character                        *)
LookupCalls ==
    {[subject |-> a.subject, flags |-> a.flags, pos |-> -1, endpos |-> -1, env |-> "none"] :
        a \in MatchArgs}
    \cup {[subject |-> Obj("unicode", <<233, 97>>), flags |-> {},
           pos |-> 1, endpos |-> e, env |-> "none"] : e \in {-1, 1}}

Indexes ==
    {IntIndex(i) : i \in -1..3}
    \cup {NameIndex("x"), NameIndex("nope"), BigIndex, OtherIndex, NoIndex}

GroupArgs ==
    {<<>>, <<IntIndex(1)>>, <<NameIndex("x")>>, <<BigIndex>>,
     <<IntIndex(0), IntIndex(2)>>, <<IntIndex(0), IntIndex(3)>>}

(* what a read outside the reported offsets may find *)
Junk == {<<-1, -1>>, <<0, 9>>, <<9, 0>>}

(***************************************************************************)
(* Actions: one per method                                                 *)
(***************************************************************************)
Init ==
    /\ build \in Builds
    /\ pat = NewPattern
    /\ match = NewMatch
    /\ result = Result("new", "none", 0, 0)

PatternInitOver(calls) ==
    \E c \in calls :
        LET r == pattern_init(pat, c.pattern, c.flags, c.loads, build, c.oom)
        IN  /\ pat' = r.self
            /\ result' = r.res
            /\ UNCHANGED <<build, match>>

PatternInit == PatternInitOver(CompileArgs)

MatchInitOver(calls) ==
    \E c \in calls :
        LET r == match_init(match, pat, c.subject, c.pos, c.endpos, c.flags, build, c.env)
        IN  /\ match' = r.self
            /\ result' = r.res
            /\ UNCHANGED <<build, pat>>

MatchInit == MatchInitOver(MatchCalls)

Reads(res) ==
    /\ result' = res
    /\ UNCHANGED <<build, pat, match>>

MatchGroup ==
    \E args \in GroupArgs, junk \in Junk :
        Reads(match_group(match, pat, args, junk, build))

MatchStart ==
    \E index \in {NoIndex, IntIndex(1)}, junk \in Junk :
        Reads(match_start(match, pat, index, junk, build))

MatchEnd ==
    \E index \in {NoIndex, IntIndex(1)}, junk \in Junk :
        Reads(match_end(match, pat, index, junk, build))

MatchSpan ==
    \E index \in Indexes, junk \in Junk :
        Reads(match_span(match, pat, index, junk, build))

MatchGroups ==
    \E junk \in Junk : Reads(match_groups(match, pat, junk, build))

MatchGroupdict ==
    \E junk \in Junk : Reads(match_groupdict(match, pat, junk, build))

MatchLastindex == Reads(match_lastindex_getter(match))

MatchLastgroup == Reads(match_lastgroup_getter(match, pat))

MatchRegs ==
    \E junk \in Junk : Reads(match_regs_getter(match, pat, junk))

(* match attempts *)
Next ==
    \/ PatternInit
    \/ MatchInit

Spec == Init /\ [][Next]_vars

(* match attempts on whole subjects and the reads of their results *)
PatternInitLookup == PatternInitOver(LookupPatterns)

MatchInitLookup == MatchInitOver(LookupCalls)

NextLookup ==
    \/ PatternInitLookup
    \/ MatchInitLookup
    \/ MatchGroup
    \/ MatchStart
    \/ MatchEnd
    \/ MatchSpan
    \/ MatchGroups
    \/ MatchGroupdict
    \/ MatchLastindex
    \/ MatchLastgroup
    \/ MatchRegs

SpecLookup == Init /\ [][NextLookup]_vars

(***************************************************************************)
(* The life of a Pattern: compile, load, study, dump, compare              *)
(***************************************************************************)
(* compilations that succeed and that fail: text and bytes, used as they   *)
(* are and re-encoded, once without memory for the re-encoded text         *)
LifecycleCompiles ==
    {[pattern |-> Obj("unicode", TextEmpty), flags |-> {}, loads |-> NoLoads, oom |-> FALSE],
     [pattern |-> Obj("unicode", TextAlt), flags |-> {"CASELESS"}, loads |-> NoLoads, oom |-> FALSE],
     [pattern |-> Obj("unicode", TextEOpen), flags |-> {}, loads |-> NoLoads, oom |-> FALSE],
     [pattern |-> Obj("unicode", TextHuge), flags |-> {}, loads |-> NoLoads, oom |-> FALSE],
     [pattern |-> Obj("unicode", TextEmpty), flags |-> {"BIT40"}, loads |-> NoLoads, oom |-> FALSE],
     [pattern |-> Obj("unicode", TextNoName), flags |-> {}, loads |-> NoLoads, oom |-> FALSE],
     [pattern |-> Obj("bytes", TextEOpen), flags |-> {}, loads |-> NoLoads, oom |-> TRUE],
     [pattern |-> Obj("bytes", TextEOpen), flags |-> {}, loads |-> NoLoads, oom |-> FALSE],
     [pattern |-> Obj("bytes", TextOpen), flags |-> {}, loads |-> NoLoads, oom |-> FALSE],
     [pattern |-> Obj("unicode", TextWideOpen), flags |-> {}, loads |-> NoLoads, oom |-> FALSE],
     [pattern |-> Obj("other", <<>>), flags |-> {}, loads |-> NoLoads, oom |-> FALSE]}

(* the block of the second pattern above, as dumps() gives it *)
AltBytes ==
    BytesOfBlock(pcre_compile2(TextAlt, {"CASELESS", "UTF8", "NO_UTF8_CHECK"}).code)

(* bytes objects that no dumps() gave: the block cut short, its magic      *)
(* number overwritten, a name entry changed to a group that does not       *)
(* exist, a name entry with no name                                        *)
CraftedBytes ==
    {[AltBytes EXCEPT !.nbytes = AltBytes.size - 8],
     [AltBytes EXCEPT !.magic = "JUNK"],
     [AltBytes EXCEPT !.name_table = <<NameEntry(7, "x")>>],
     [AltBytes EXCEPT !.name_table = <<NameEntry(1, "")>>]}

(* loads= calls on self: what self.dumps() gives, with the pattern and the *)
(* flags of self, and the crafted bytes                                    *)
LoadCalls(self) ==
    {[pattern |-> self.pattern, flags |-> self.flags,
      loads |-> pattern_dumps(self).val, oom |-> o] :
        o \in {x \in BOOLEAN : pattern_dumps(self).exc = "none"}}
    \cup {[pattern |-> Obj("other", <<>>), flags |-> {}, loads |-> l, oom |-> FALSE] :
            l \in CraftedBytes}

(* match attempts on a Pattern in use: "skip" and "opcode" are what study  *)
(* data of another block and a block cut short may do to the engine; the   *)
(* last call passes flags that do not fit a C int                          *)
LifecycleCalls ==
    {[subject |-> Obj("unicode", d), flags |-> {}, pos |-> -1, endpos |-> -1, env |-> v] :
        d \in {<<>>, <<97>>}, v \in {"none", "skip", "opcode"}}
    \cup {[subject |-> Obj("unicode", <<97>>), flags |-> {"BIT40"},
           pos |-> -1, endpos |-> -1, env |-> "none"]}

StudyOptions == {{}, {"JIT_COMPILE"}, {"UNKNOWN"}, {"BIT40"}}

PatternInitLifecycle == PatternInitOver(LifecycleCompiles)

PatternLoads == PatternInitOver(LoadCalls(pat))

PatternStudy ==
    \E options \in StudyOptions, useful \in BOOLEAN, oom \in BOOLEAN :
        LET r == pattern_study(pat, options, useful, oom)
        IN  /\ pat' = r.self
            /\ result' = r.res
            /\ UNCHANGED <<build, match>>

PatternSetJitStack ==
    \E fits \in BOOLEAN, api \in BOOLEAN, jit \in BOOLEAN, oom \in BOOLEAN :
        LET r == pattern_set_jit_stack(pat, fits, api, jit, oom)
        IN  /\ pat' = r.self
            /\ result' = r.res
            /\ UNCHANGED <<build, match>>

PatternDumps ==
    /\ result' = pattern_dumps(pat)
    /\ UNCHANGED <<build, pat, match>>

(* compared with itself, with a Pattern never initialised, with a Pattern  *)
(* of the empty text, and with an object that is no Pattern                *)
PatternCompare ==
    \E op \in {"EQ", "NE", "LT"},
       other \in {pat, NewPattern, NullObj,
                  pattern_init(NewPattern, Obj("unicode", TextEmpty), {}, NoLoads,
                               build, FALSE).self} :
        /\ result' = pattern_richcompare(pat, other, op)
        /\ UNCHANGED <<build, pat, match>>

MatchInitLifecycle == MatchInitOver(LifecycleCalls)

NextPattern ==
    \/ PatternInitLifecycle
    \/ PatternLoads
    \/ PatternStudy
    \/ PatternSetJitStack
    \/ PatternDumps
    \/ PatternCompare
    \/ MatchInitLifecycle

SpecPattern == Init /\ [][NextPattern]_vars

(***************************************************************************)
(* The strings handed to the library: extraction and offset conversion     *)
(***************************************************************************)
MaxOffset == 3       \* largest character offset converted

(* objects given as pattern or subject: text of one to four byte           *)
(* characters and a lone surrogate, bytes that are ASCII, Latin-1 and      *)
(* UTF-8, buffers of one and two byte items, and an object of no use       *)
StringObjects ==
    {Obj("unicode", d) : d \in {<<>>, <<97>>, <<233>>, <<8364, 97>>, <<128512>>,
                                 <<233, 97>>, <<55296>>}}
    \cup {Obj("bytes", d) : d \in {<<97>>, <<169>>, <<233, 97>>, <<195, 169>>}}
    \cup {Obj("buffer1", <<97, 233>>), Obj("buffer2", <<233>>), Obj("other", <<>>)}

StringFlags == {{}, {"UTF8"}, {"NO_UTF8_CHECK"}, {"UTF8", "NO_UTF8_CHECK"}}

(* the strings whose offsets are converted: those of text and of Latin-1   *)
(* bytes that were re-encoded                                              *)
EncodedStrings ==
    {[op |-> op, str |-> pypcre_string_get(op, {}, build, FALSE).str] :
        op \in {o \in StringObjects :
                   /\ pypcre_string_get(o, {}, build, FALSE).rc = 0
                   /\ pypcre_string_get(o, {}, build, FALSE).str.op # o}}

OffsetArgs == -1..MaxOffset

(* pypcre_string_get(&str, op, &options) *)
StringGet ==
    \E op \in StringObjects, flags \in StringFlags, oom \in BOOLEAN :
        LET got == pypcre_string_get(op, flags, build, oom)
        IN  /\ result' = Result("string_get", got.exc, 0,
                                [op |-> op, flags |-> flags, got |-> got])
            /\ UNCHANGED <<build, pat, match>>

(* match_init, lines 985-988: character offsets of the caller to byte      *)
(* offsets of the string                                                   *)
CharToByte ==
    \E e \in EncodedStrings, pos \in OffsetArgs, endpos \in OffsetArgs :
        /\ (pos <= endpos \/ endpos < 0)
        /\ result' = Result("char_to_byte", "none", 0,
               [op |-> e.op, str |-> e.str, pos |-> pos, endpos |-> endpos,
                out |-> pypcre_string_char_to_byte_offsets(
                            e.str, TRUE, pos, TRUE, endpos, build.wide)])
        /\ UNCHANGED <<build, pat, match>>

(* get_span, lines 914-915: the byte offsets just computed back to         *)
(* character offsets                                                       *)
ByteToChar ==
    /\ result.op = "char_to_byte"
    /\ result' = Result("byte_to_char", "none", 0,
           [op |-> result.val.op, str |-> result.val.str,
            pos |-> result.val.pos, endpos |-> result.val.endpos,
            bytes |-> result.val.out,
            out |-> pypcre_string_byte_to_char_offsets(
                        result.val.str, TRUE, result.val.out[1],
                        TRUE, result.val.out[2], build.wide)])
    /\ UNCHANGED <<build, pat, match>>

NextString ==
    \/ StringGet
    \/ CharToByte
    \/ ByteToChar

SpecString == Init /\ [][NextString]_vars

(***************************************************************************)
(* Properties of match attempts (under Spec)                               *)
(***************************************************************************)
(* the last call was a match attempt *)
Attempted == result.op = "match_init"

(* C1: a match attempt reports NoMatch exactly when the engine returned    *)
(* its no-match code or when pos > endpos; any other negative result of    *)
(* the engine is MemoryError (out of memory) or PCREError carrying the     *)
(* engine's code, and a Match is made only when the engine returned a      *)
(* result that is not negative.                                            *)
C1_NoMatchIsNotAnError ==
    Attempted =>
        /\ (result.exc = "NoMatch") <=>
               (result.val.late
                \/ (result.val.engine /\ result.val.rc = PCRE_ERROR_NOMATCH))
        /\ (result.val.engine /\ result.val.rc < 0
                /\ result.val.rc # PCRE_ERROR_NOMATCH) =>
               IF result.val.rc = PCRE_ERROR_NOMEMORY
               THEN result.exc = "MemoryError"
               ELSE result.exc = "PCREError" /\ result.errcode = result.val.rc
        /\ (result.exc = "none") => (result.val.engine /\ result.val.rc >= 0)

(* the engine ran into its match limit and the attempt raised PCREError *)
C1_Witness_MatchLimit ==
    /\ Attempted
    /\ result.val.engine
    /\ result.val.rc = PCRE_ERROR_MATCHLIMIT
    /\ result.exc = "PCREError"
    /\ result.errcode = PCRE_ERROR_MATCHLIMIT

(* C8: a match attempt that fails, for whatever reason, leaves the Pattern *)
(* and every field of the Match as they were before the call.              *)
C8_FailedAttemptChangesNothing ==
    [][(result'.op = "match_init" /\ result'.exc # "none")
          => (pat' = pat /\ match' = match)]_vars

(* an attempt failed in the engine on a Match that held an earlier match *)
C8_Witness_FailedOnReadyMatch ==
    /\ Attempted
    /\ result.exc = "PCREError"
    /\ assert_match_ready(match)
    /\ assert_pattern_ready(pat)

(* pos and endpos of a call after the bounds check, in the caller's units: *)
(* a negative pos is 0, a negative or over-length endpos is len(subject)   *)
ClampedWindow(c) ==
    LET n == PyObject_Size(c.subject, build)
    IN  [pos |-> IF c.pos < 0 THEN 0 ELSE c.pos,
         endpos |-> IF c.endpos < 0 \/ c.endpos > n THEN n ELSE c.endpos]

(* C9: whenever pos lies after endpos, both taken after the bounds check   *)
(* against the length of the subject, the attempt raises NoMatch and the   *)
(* engine is not invoked.                                                  *)
C9_StartAfterEndIsNoMatch ==
    assert_pattern_ready(pat) =>
        \A c \in MatchCalls :
            (/\ c.subject.kind \in {"unicode", "bytes"}
             /\ c.env = "none"
             /\ ClampedWindow(c).pos > ClampedWindow(c).endpos)
            => LET r == match_init(match, pat, c.subject, c.pos, c.endpos,
                                   c.flags, build, c.env)
               IN  r.res.exc = "NoMatch" /\ ~r.res.val.engine

(***************************************************************************)
(* Properties of the reads of a Match (under SpecLookup)                   *)
(***************************************************************************)
(* group i was given offsets by the engine when self was matched *)
Participated(self, i) ==
    /\ 2 * i + 1 < Len(self.ovector)
    /\ self.ovector[2 * i + 1] >= 0
    /\ self.ovector[2 * i + 2] >= 0

(* C2: for a Match and every group of its pattern that participated in the *)
(* match, the span that span(i) returns satisfies                          *)
(* 0 <= start <= end <= len(subject), in the units of the subject as the   *)
(* caller passed it.                                                       *)
C2_SpanWithinSubject ==
    assert_match_ready(match) =>
        \A i \in 0..pat.groups :
            LET r == match_span(match, pat, IntIndex(i), <<-1, -1>>, build)
            IN  (Participated(match, i) /\ r.exc = "none") =>
                    /\ 0 <= r.val[1]
                    /\ r.val[1] <= r.val[2]
                    /\ r.val[2] <= PyObject_Size(match.subject, build)

(* C3: after a successful match, every group of the pattern that did not   *)
(* participate reports span (-1, -1), and group() and groups() give the    *)
(* default for it, whatever lies in memory around the span array.          *)
C3_UnsetGroupsReportNoMatch ==
    assert_match_ready(match) =>
        \A i \in 1..pat.groups, junk \in Junk :
            ~Participated(match, i) =>
                /\ match_span(match, pat, IntIndex(i), junk, build)
                       = Result("span", "none", 0, <<-1, -1>>)
                /\ match_group(match, pat, <<IntIndex(i)>>, junk, build)
                       = Result("group", "none", 0, Default)
                /\ match_groups(match, pat, junk, build).exc = "none"
                /\ match_groups(match, pat, junk, build).val[i] = Default

(* the lookup of index by span(), start(), end() and group() on the Match *)
Lookups(index, junk) ==
    <<match_span(match, pat, index, junk, build),
      match_start(match, pat, index, junk, build),
      match_end(match, pat, index, junk, build),
      match_group(match, pat, <<index>>, junk, build)>>

(* every one of the four lookups raises exc *)
AllRaise(index, junk, exc) ==
    \A k \in 1..4 : Lookups(index, junk)[k].exc = exc

(* the integers and names that C10 says are refused *)
NoSuchGroup(index) ==
    \/ index.kind = "bigint"
    \/ index.kind = "int" /\ (index.val < 0 \/ index.val > pat.groups)
    \/ index.kind = "str" /\ DictGet(pat.groupindex, index.name) < 0

HighestParticipated(self) ==
    CHOOSE i \in 0..(Len(self.ovector) \div 2) :
        /\ Participated(self, i)
        /\ \A j \in (i + 1)..(Len(self.ovector) \div 2) : ~Participated(self, j)

(* C11: lastindex of a Match is the number of the highest-numbered group    *)
(* that participated, lies in 1..groups of its pattern when it is not None, *)
(* and is None exactly when no group but group 0 participated; lastgroup is *)
(* the name the name table maps to that number, and None when none does.    *)
C11_LastIndexIsHighestGroup ==
    assert_match_ready(match) =>
        LET li  == match_lastindex_getter(match).val
            lg  == match_lastgroup_getter(match, pat)
            top == HighestParticipated(match)
        IN  /\ li.none <=> top = 0
            /\ ~li.none => (li.value = top /\ li.value \in 1..pat.groups)
            /\ lg.exc = "none"
            /\ lg.val.none <=> ~(\E e \in pat.groupindex : e[2] = top)
            /\ ~lg.val.none => <<lg.val.name, top>> \in pat.groupindex

(***************************************************************************)
(* Properties of the life of a Pattern (under SpecPattern)                 *)
(***************************************************************************)
(* what a match attempt on pattern p gives, on a Match never used *)
Outcome(p, c) ==
    match_init(NewMatch, p, c.subject, c.pos, c.endpos, c.flags, build, c.env).res

(* the Pattern made from the bytes self.dumps() returns, with the pattern  *)
(* and the flags of self                                                   *)
Reloaded(self) ==
    pattern_init(NewPattern, self.pattern, self.flags, pattern_dumps(self).val,
                 build, FALSE)

(* C4: the Pattern rebuilt from p.dumps() has the group count, the name    *)
(* table and the flags of p, and every match attempt gives on it what it   *)
(* gives on p.                                                             *)
C4_RoundTrip ==
    (assert_pattern_ready(pat) /\ BlockWhole(pat.code)) =>
        /\ pattern_dumps(pat).exc = "none"
        /\ Reloaded(pat).res.exc = "none"
        /\ Reloaded(pat).self.groups = pat.groups
        /\ Reloaded(pat).self.groupindex = pat.groupindex
        /\ Reloaded(pat).self.flags = pat.flags
        /\ \A c \in LifecycleCalls : Outcome(Reloaded(pat).self, c) = Outcome(pat, c)

(* the bytes of a block are consistent: as many as the block declares, and *)
(* every entry of the name table names a group of the block                *)
ConsistentBlock(code) ==
    /\ code.alloc = code.size
    /\ \A k \in 1..Len(code.name_table) :
           code.name_table[k].index \in 0..code.top_bracket

(* C5: the engine is never run on a block that came from bytes which are   *)
(* not consistent.                                                         *)
C5_EngineNeverRunsUnvalidatedBytes ==
    (Attempted /\ result.val.engine) => ConsistentBlock(pat.code)

(* the fields of a Pattern that describe what it matches *)
Compiled(self) ==
    <<self.code, self.groups, self.groupindex, self.flags, self.pattern>>

(* C6: a call of study(), whether it succeeds or fails, leaves the code,   *)
(* the group count, the name table, the flags and the source as they were, *)
(* and no match attempt gives after it anything else than before it.       *)
C6_StudyInvariance ==
    [][result'.op = "study" =>
          /\ Compiled(pat') = Compiled(pat)
          /\ \A c \in LifecycleCalls : Outcome(pat', c) = Outcome(pat, c)]_vars

(* C7: once __init__ has succeeded, no operation changes the code, the     *)
(* group count, the name table, the flags or the source of the Pattern.    *)
C7_PatternImmutable ==
    [][assert_pattern_ready(pat) => Compiled(pat') = Compiled(pat)]_vars

(* the number of items of the pattern object whose characters start before *)
(* byte o of its UTF-8 form: data are the items still to come              *)
RECURSIVE CharsStartingBefore(_, _, _)
CharsStartingBefore(op, data, o) ==
    IF data = <<>> \/ o <= 0 THEN 0
    ELSE LET c     == Head(data)
             bytes == IF op.kind = "unicode" THEN Len(EncodeCodePoint(c))
                      ELSE IF c > 127 THEN 2 ELSE 1
         IN  PyObject_Size([op EXCEPT !.data = <<c>>], build)
             + CharsStartingBefore(op, Tail(data), o - bytes)

(* the compilation of call c fails in the engine: the string, the engine's *)
(* answer and what __init__ raises                                         *)
CompileFailure(c) ==
    LET got == pypcre_string_get(c.pattern, c.flags, build, c.oom)
    IN  [failed |-> FitsCInt(c.flags) /\ c.loads = NoLoads /\ got.rc = 0
                    /\ pcre_compile2(got.str.string, got.options \cup {"UTF8"}).code = NullCode,
         encoded |-> got.str.op # c.pattern,
         cmp |-> pcre_compile2(got.str.string, got.options \cup {"UTF8"}),
         res |-> pattern_init(pat, c.pattern, c.flags, c.loads, build, c.oom).res]

(* C12: when compilation fails, the position in the error is a character   *)
(* index into the pattern as the caller passed it: for a pattern that was  *)
(* re-encoded it is the number of characters that start before the         *)
(* engine's byte offset, never more than the pattern has, and for a        *)
(* pattern used as it is it is the engine's offset.                        *)
C12_ErrorPositionInCharacters ==
    \A c \in LifecycleCompiles :
        LET f == CompileFailure(c)
        IN  f.failed =>
                /\ f.res.exc \in {"PCREError", "OverflowError"}
                /\ f.encoded =>
                       /\ f.res.val = CharsStartingBefore(c.pattern, c.pattern.data,
                                                          f.cmp.offset)
                       /\ f.res.val <= PyObject_Size(c.pattern, build)
                /\ ~f.encoded => f.res.val = f.cmp.offset

(* the engine refuses the pattern of call c for a quantifier that is too large *)
QuantifierTooBig(c) ==
    CompileFailure(c).failed /\ CompileFailure(c).cmp.rc = COMPILE_ERROR_TOO_BIG

(* C13 as stated: __init__ raises OverflowError exactly for a quantifier    *)
(* the engine finds too large, and no study or match attempt ever raises   *)
(* OverflowError.                                                          *)
C13_Stated_OverflowOnlyForQuantifier ==
    /\ \A c \in LifecycleCompiles \cup LoadCalls(pat) :
           (pattern_init(pat, c.pattern, c.flags, c.loads, build, c.oom).res.exc
                = "OverflowError") <=> QuantifierTooBig(c)
    /\ \A options \in StudyOptions, useful \in BOOLEAN, oom \in BOOLEAN :
           pattern_study(pat, options, useful, oom).res.exc # "OverflowError"
    /\ \A c \in LifecycleCalls : Outcome(pat, c).exc # "OverflowError"

(* C13, amended: __init__ raises OverflowError exactly for a quantifier the *)
(* engine finds too large and for flags that do not fit a C int; study and *)
(* match attempts raise OverflowError exactly for an integer argument that *)
(* does not fit a C int, and never for anything the engine reports.        *)
C13_OverflowError ==
    /\ \A c \in LifecycleCompiles \cup LoadCalls(pat) :
           (pattern_init(pat, c.pattern, c.flags, c.loads, build, c.oom).res.exc
                = "OverflowError") <=> (QuantifierTooBig(c) \/ ~FitsCInt(c.flags))
    /\ \A options \in StudyOptions, useful \in BOOLEAN, oom \in BOOLEAN :
           (pattern_study(pat, options, useful, oom).res.exc = "OverflowError")
               <=> ~FitsCInt(options)
    /\ \A c \in LifecycleCalls :
           (Outcome(pat, c).exc = "OverflowError") <=> ~FitsCInt(c.flags)

(* __init__ raised OverflowError for the quantifier at its position in the text *)
C13_Witness_QuantifierRefused ==
    /\ result.op = "pattern_init"
    /\ result.exc = "OverflowError"
    /\ result.val = 7

(* the block that __init__ builds for call c has a name entry with no name *)
BuildsEmptyName(c) ==
    LET blk == pattern_init_block(c.pattern, c.flags, c.loads, build, c.oom)
    IN  /\ FitsCInt(c.flags)
        /\ blk.res.exc = "none"
        /\ \E k \in 1..Len(blk.code.name_table) : blk.code.name_table[k].name = ""

(* C14: __init__ refuses a block whose name table has an entry with an     *)
(* empty name, compiled or loaded, with PCREError (code 84 when the block  *)
(* is one the library knows), and the Pattern is after the call what it    *)
(* was before it.                                                          *)
C14_EmptyGroupNameRejected ==
    /\ [](\A c \in LifecycleCompiles \cup LoadCalls(pat) :
             BuildsEmptyName(c) =>
                 LET r == pattern_init(pat, c.pattern, c.flags, c.loads, build, c.oom)
                 IN  /\ r.res.exc = "PCREError"
                     /\ r.res.errcode \in {ERROR_EMPTY_NAME, PCRE_ERROR_BADMAGIC}
                     /\ r.self = pat)
    /\ [][(result'.op = "pattern_init" /\ result'.errcode = ERROR_EMPTY_NAME)
              => pat' = pat]_vars

(* __init__ refused an empty group name on a Pattern never initialised *)
C14_Witness_RefusedBeforeReady ==
    /\ result.op = "pattern_init"
    /\ result.exc = "PCREError"
    /\ result.errcode = ERROR_EMPTY_NAME
    /\ ~assert_pattern_ready(pat)

(***************************************************************************)
(* Properties of the window of a match attempt (under Spec)                *)
(***************************************************************************)
(* a subject the binding takes and that is UTF-8 when the caller says so *)
WellFormedSubject(a) ==
    /\ a.subject.kind \in {"unicode", "bytes"}
    /\ "UTF8" \in a.flags => ValidUTF8(a.subject.data, 0, Len(a.subject.data))

(* the attempt on subject a with pos = endpos = len(subject) *)
AttemptAtEnd(a) ==
    match_init(match, pat, a.subject, PyObject_Size(a.subject, build),
               PyObject_Size(a.subject, build), a.flags, build, "none")

(* C15: a match attempt with pos = endpos = len(subject) reaches the       *)
(* engine; on the pattern that matches the empty string it gives a Match   *)
(* whose span is (len(subject), len(subject)), on the pattern that needs a *)
(* character it raises NoMatch, for subjects used as they are and for      *)
(* subjects that are re-encoded (bytes declared UTF-8 being UTF-8).        *)
C15_BoundaryAtEnd ==
    assert_pattern_ready(pat) =>
        \A a \in MatchArgs :
            WellFormedSubject(a) =>
                LET r == AttemptAtEnd(a)
                    n == PyObject_Size(a.subject, build)
                IN  /\ r.res.val.engine
                    /\ pat.code.prog = "EMPTY" =>
                           /\ r.res.exc = "none"
                           /\ match_span(r.self, pat, NoIndex, <<-1, -1>>, build)
                                  = Result("span", "none", 0, <<n, n>>)
                    /\ pat.code.prog = "ALT" => r.res.exc = "NoMatch"

(* the empty pattern matched at the end of a subject that was re-encoded *)
C15_Witness_EmptyMatchAtEnd ==
    /\ Attempted
    /\ result.exc = "none"
    /\ match.str.op # match.subject
    /\ match.startpos = PyObject_Size(match.subject, build)
    /\ match.endpos = match.startpos
    /\ match.startpos = 2

(* C19: the bounds stored in a Match satisfy                               *)
(* 0 <= pos <= endpos <= len(subject), the length counted in the items of  *)
(* the subject as the caller passed it.                                    *)
C19_StoredBoundsWithinSubject ==
    assert_match_ready(match) =>
        /\ 0 <= match.startpos
        /\ match.startpos <= match.endpos
        /\ match.endpos <= PyObject_Size(match.subject, build)

(* C20: for a Match and every group i of its pattern, regs[i] is the pair  *)
(* that span(i) returns, whatever the kind of the subject.                 *)
C20_RegsEqualSpans ==
    assert_match_ready(match) =>
        \A i \in 0..pat.groups, junk \in Junk :
            LET sp == match_span(match, pat, IntIndex(i), junk, build)
                rg == match_regs_getter(match, pat, junk)
            IN  sp.exc = "none" => (rg.exc = "none" /\ rg.val[i] = sp.val)

(***************************************************************************)
(* Properties of the strings handed to the library (under SpecString)      *)
(***************************************************************************)
(* the last call extracted a string *)
Extracted == result.op = "string_get" /\ result.exc = "none"

(* C16: when the binding adds NO_UTF8_CHECK to options that do not have    *)
(* it, the string it extracted is valid UTF-8 and the object is text, or   *)
(* bytes not declared UTF-8; bytes the caller declares UTF-8 are used as   *)
(* they are and the options stay as the caller gave them.                  *)
C16_NoCheckOnlyForValidData ==
    Extracted =>
        LET v == result.val
        IN  /\ ("NO_UTF8_CHECK" \in v.got.options /\ "NO_UTF8_CHECK" \notin v.flags) =>
                   /\ ValidUTF8(v.got.str.string, 0, v.got.str.length)
                   /\ v.op.kind \in {"bytes", "buffer1"} => "UTF8" \notin v.flags
            /\ (v.op.kind \in {"bytes", "buffer1"} /\ "UTF8" \in v.flags) =>
                   /\ v.got.str.op = v.op
                   /\ v.got.str.string = v.op.data
                   /\ v.got.options = v.flags

(* the place in the output of the k-th byte of data: one more for every    *)
(* byte above 127 before it                                                *)
OutputOffset(data, k) ==
    (k - 1) + Cardinality({j \in 1..(k - 1) : data[j] > 127})

(* C17: for bytes given without the UTF8 flag that have a byte above 127,  *)
(* the string built is the UTF-8 form of the bytes read as Latin-1: its    *)
(* length is len(input) plus the number of bytes above 127, a byte up to   *)
(* 127 is copied, a byte c above 127 becomes 0xC0 | (c >> 6) and           *)
(* 0x80 | (c & 0x3F), the buffer is filled to its end, and the string has  *)
(* as many characters as the input has bytes; bytes with no byte above 127 *)
(* are used as they are.                                                   *)
C17_Latin1Reencoding ==
    (Extracted /\ result.val.op.kind \in {"bytes", "buffer1"}
               /\ "UTF8" \notin result.val.flags) =>
        LET data == result.val.op.data
            str  == result.val.got.str
            high == {j \in 1..Len(data) : data[j] > 127}
        IN  IF high = {}
            THEN str.op = result.val.op /\ str.string = data /\ str.length = Len(data)
            ELSE /\ str.op # result.val.op
                 /\ str.length = Len(data) + Cardinality(high)
                 /\ Len(str.string) = str.length
                 /\ str.string = PyUnicode_AsUTF8String(data)
                 /\ \A k \in 1..Len(data) :
                        IF data[k] <= 127
                        THEN str.string[OutputOffset(data, k) + 1] = data[k]
                        ELSE /\ str.string[OutputOffset(data, k) + 1]
                                    = 192 + (data[k] \div 64)
                             /\ str.string[OutputOffset(data, k) + 2]
                                    = 128 + (data[k] % 64)
                 /\ pypcre_string_byte_to_char_offsets(
                        str, TRUE, str.length, FALSE, -1, build.wide)[1] = Len(data)

(* Latin-1 bytes with a byte below 0xC0 and above 127 were re-encoded *)
C17_Witness_Reencoded ==
    /\ Extracted
    /\ result.val.op = Obj("bytes", <<169>>)
    /\ result.val.got.str.string = <<194, 169>>

(* a byte offset of the string is the start of a character or its end *)
OnBoundary(str, k) ==
    k = str.length \/ (k >= 0 /\ k < str.length /\ ISUTF8(ByteAt(str.string, k)))

(* the offsets of a conversion lie in the subject: 0 <= pos <= endpos <=   *)
(* len(subject)                                                            *)
InSubject(v) ==
    /\ 0 <= v.pos
    /\ v.pos <= v.endpos
    /\ v.endpos <= PyObject_Size(v.op, build)

(* C18: for a re-encoded subject and character offsets                     *)
(* 0 <= pos <= endpos <= len(subject), the byte offsets computed lie on    *)
(* character boundaries with 0 <= bytepos <= byteend <= byte length, and   *)
(* converting them back gives pos and endpos again; a negative offset      *)
(* goes through both conversions unchanged.                                *)
C18_OffsetRoundTrip ==
    /\ (result.op = "char_to_byte" /\ InSubject(result.val)) =>
           /\ OnBoundary(result.val.str, result.val.out[1])
           /\ OnBoundary(result.val.str, result.val.out[2])
           /\ 0 <= result.val.out[1]
           /\ result.val.out[1] <= result.val.out[2]
           /\ result.val.out[2] <= result.val.str.length
    /\ (result.op = "byte_to_char" /\ InSubject(result.val)) =>
           result.val.out = <<result.val.pos, result.val.endpos>>
    /\ (result.op \in {"char_to_byte", "byte_to_char"}) =>
           /\ result.val.pos < 0 => result.val.out[1] = result.val.pos
           /\ result.val.endpos < 0 => result.val.out[2] = result.val.endpos

(***************************************************************************)
(* Properties of the span array of a Match (under SpecLookup)              *)
(***************************************************************************)
(* group number i is taken by the lookups of the Match: get_index and      *)
(* get_span let it through                                                 *)
AcceptedIndex(i) ==
    /\ get_index(pat, IntIndex(i)).exc = "none"
    /\ \A junk \in Junk :
           get_span(match, pat, i, TRUE, TRUE, junk, build).exc # "IndexError"

(* C21: every group number that a ready Match accepts lies inside the      *)
(* span array made for the Match when it was matched, one pair for each of *)
(* the groups the pattern had then and one for group 0: no accepted number *)
(* reads outside that array, whatever was done to the Pattern since.       *)
C21_AcceptedIndexInsideSpanArray ==
    assert_match_ready(match) =>
        \A i \in -1..3 :
            AcceptedIndex(i) => (i >= 0 /\ 2 * i + 1 < Len(match.ovector))

====
